---------------------------- MODULE Spec2Model ----------------------------
(***************************************************************************)
(* A model of the rog_fan_curve library and of its command line tool.      *)
(*                                                                         *)
(* Strings are sequences of one-character strings, so that trimming,       *)
(* splitting, suffix tests, number parsing and number formatting are       *)
(* computed character by character, as the Rust code computes them.        *)
(* A Curve is its 16-byte buffer; TLA+ sequences are 1-based, so byte      *)
(* curve[i] of the source is c[i+1] here.                                  *)
(*                                                                         *)
(* Three specifications share the module:                                  *)
(*   Spec       one Curve object under set_point, check_safety and         *)
(*              make_command;                                              *)
(*   SpecCodec  a config string decoded, encoded and decoded again;        *)
(*   SpecCli    one run of the command line tool's main.                   *)
(***************************************************************************)
EXTENDS Integers, Sequences, FiniteSets, TLC

VARIABLES
    \* ---- Spec: one Curve object
    curve,          \* the 16-byte buffer
    curve0,         \* history: the buffer the object started with
    ncalls,         \* set_point calls made so far
    hist,           \* history: per point index, the last set_point call made for it
    res,            \* the result of the last read-only call on the curve
    panicked,       \* an assert! of the library failed
    \* ---- SpecCodec: a config string through decode / encode / decode
    input,          \* the config string handed to from_config_str
    cpc,            \* "input" | "decoded" | "encoded" | "redecoded"
    dec,            \* from_config_str(input)
    out,            \* as_config_string of the decoded curve
    dec2,           \* from_config_str(out)
    \* ---- SpecCli: one run of main
    args,           \* the parsed command line
    env,            \* what the machine answers: the DMI board name
    pc,             \* where main is
    cli             \* main's locals and its observable effects

curveVars == <<curve, curve0, ncalls, hist, res, panicked>>
codecVars == <<input, cpc, dec, out, dec2>>
cliVars   == <<args, env, pc, cli>>
vars      == <<curve, curve0, ncalls, hist, res, panicked,
               input, cpc, dec, out, dec2,
               args, env, pc, cli>>

NoResult == [kind |-> "none", val |-> <<>>]

-----------------------------------------------------------------------------
(* Characters and strings                                                  *)

DigitChars == <<"0", "1", "2", "3", "4", "5", "6", "7", "8", "9">>

HexChars == <<"0", "1", "2", "3", "4", "5", "6", "7",
              "8", "9", "a", "b", "c", "d", "e", "f">>

IsDigit(ch) == \E d \in 1..10 : DigitChars[d] = ch

DigitVal(ch) == (CHOOSE d \in 1..10 : DigitChars[d] = ch) - 1

\* char::is_whitespace, on the characters the inputs are written in
IsWhitespace(ch) == ch \in {" ", "\t", "\n"}

Last(s) == s[Len(s)]

Front(s) == SubSeq(s, 1, Len(s) - 1)

RECURSIVE TrimStart(_)
TrimStart(s) ==
    IF s # <<>> /\ IsWhitespace(Head(s)) THEN TrimStart(Tail(s)) ELSE s

RECURSIVE TrimEnd(_)
TrimEnd(s) ==
    IF s # <<>> /\ IsWhitespace(Last(s)) THEN TrimEnd(Front(s)) ELSE s

\* str::trim
Trim(s) == TrimEnd(TrimStart(s))

\* str::trim_end_matches(pat) for a one-character pattern: every trailing
\* repetition of the pattern is removed
RECURSIVE TrimEndMatches(_, _)
TrimEndMatches(s, ch) ==
    IF s # <<>> /\ Last(s) = ch THEN TrimEndMatches(Front(s), ch) ELSE s

\* str::split(pat) for a one-character pattern, collected: the fields
\* between the separators, empty fields included; the empty string has one
\* (empty) field
RECURSIVE SplitFrom(_, _, _, _)
SplitFrom(s, ch, field, acc) ==
    IF s = <<>> THEN Append(acc, field)
    ELSE IF Head(s) = ch THEN SplitFrom(Tail(s), ch, <<>>, Append(acc, field))
    ELSE SplitFrom(Tail(s), ch, Append(field, Head(s)), acc)

Split(s, ch) == SplitFrom(s, ch, <<>>, <<>>)

\* str::ends_with(pat) for a one-character pattern
EndsWith(s, ch) == s # <<>> /\ Last(s) = ch

\* A variant of ParseU8 that parses into a wider integer and narrows it
\* with `as u8`: a value over 255 wraps instead of failing
RECURSIVE ParseDigitsWide(_, _)
ParseDigitsWide(s, acc) ==
    IF s = <<>> THEN [ok |-> TRUE, val |-> acc % 256]
    ELSE IF ~IsDigit(Head(s)) THEN [ok |-> FALSE, val |-> 0]
    ELSE ParseDigitsWide(Tail(s), acc * 10 + DigitVal(Head(s)))

ParseU8_wrapping(s) ==
    IF s = <<>> THEN [ok |-> FALSE, val |-> 0]
    ELSE IF Head(s) \in {"+", "-"} /\ Tail(s) = <<>> THEN [ok |-> FALSE, val |-> 0]
    ELSE IF Head(s) = "+" THEN ParseDigitsWide(Tail(s), 0)
    ELSE ParseDigitsWide(s, 0)

\* <u8 as FromStr>::from_str: an optional leading '+', then at least one
\* decimal digit and nothing else; the value is accumulated digit by digit
\* and exceeding u8::MAX is an error
RECURSIVE ParseDigits(_, _)
ParseDigits(s, acc) ==
    IF s = <<>> THEN [ok |-> TRUE, val |-> acc]
    ELSE IF ~IsDigit(Head(s)) THEN [ok |-> FALSE, val |-> 0]
    ELSE LET v == acc * 10 + DigitVal(Head(s))
         IN  IF v > 255 THEN [ok |-> FALSE, val |-> 0]
             ELSE ParseDigits(Tail(s), v)

ParseU8(s) ==
    IF s = <<>> THEN [ok |-> FALSE, val |-> 0]
    ELSE IF Head(s) \in {"+", "-"} /\ Tail(s) = <<>> THEN [ok |-> FALSE, val |-> 0]
    ELSE IF Head(s) = "+" THEN ParseDigits(Tail(s), 0)
    ELSE ParseDigits(s, 0)

\* format!("{}", n) for an unsigned integer: decimal, no padding, no sign
RECURSIVE FmtDecimal(_)
FmtDecimal(n) ==
    IF n < 10 THEN <<DigitChars[n + 1]>>
    ELSE Append(FmtDecimal(n \div 10), DigitChars[(n % 10) + 1])


-----------------------------------------------------------------------------
(* Curve: construction, mutation, config strings                           *)

Ok(v) == [kind |-> "ok", val |-> v]

\* a failed assert!, unwrap or expect: the thread panics
Panicked == [kind |-> "panic", val |-> <<>>]

Err(e) == [kind |-> "err", val |-> e]

IsOk(r) == r.kind = "ok"

IsErr(r) == r.kind = "err"

\* Curve::new
new ==
    << 30, 45, 50, 60,
       70, 80, 90, 100,
       18, 18, 18, 32,
       48, 64, 100, 100 >>

\* A variant of set_point that stores the speed one place too low
set_point_off_by_one(c, n, temp, speed) ==
    IF ~(n <= 7) THEN Panicked
    ELSE Ok([c EXCEPT ![n + 1] = temp, ![n + 8] = speed])

\* Curve::set_point: Ok(the buffer after the call), or the failed assert!
set_point(c, n, temp, speed) ==
    IF ~(n <= 7) THEN Panicked
    ELSE Ok([c EXCEPT ![n + 1] = temp, ![n + 8 + 1] = speed])

\* The body of from_config_str's loop and what follows it: `pairs` are the
\* fields not yet visited, c the curve so far, pair_i the loop's counter.
RECURSIVE ParsePairs(_, _, _)
ParsePairs(pairs, c, pair_i) ==
    IF pairs = <<>> THEN
        IF pair_i < 7 THEN Err(<<"Too few pairs.">>) ELSE Ok(c)
    ELSE IF pair_i >= 8 THEN Err(<<"Too many pairs.">>)
    ELSE
        LET pair_str == Trim(Head(pairs))
            pair     == Split(pair_str, ":")
        IN  IF Len(pair) < 1 THEN Err(<<"Invalid format: ", pair_str>>)
            ELSE IF Len(pair) < 2 THEN Err(<<"Invalid format: ", pair_str>>)
            ELSE
                LET temp  == pair[1]
                    speed == pair[2]
                IN  IF ~EndsWith(temp, "c") THEN Err(<<"Tempruature must have a c">>)
                    ELSE IF ~EndsWith(speed, "%") THEN Err(<<"Speed must have a %">>)
                    ELSE
                        LET temp_s  == Front(temp)
                            speed_s == Front(speed)
                            temp_n  == ParseU8(temp_s)
                            speed_n == ParseU8(speed_s)
                        IN  IF ~temp_n.ok THEN Err(<<"Invalid number: ", temp_s>>)
                            ELSE IF ~speed_n.ok THEN Err(<<"Invalid number: ", speed_s>>)
                            ELSE
                                LET c2 == set_point(c, pair_i, temp_n.val, speed_n.val)
                                IN  IF ~IsOk(c2) THEN Panicked
                                    ELSE ParsePairs(Tail(pairs), c2.val, pair_i + 1)

\* Curve::from_config_str
from_config_str(config_str) ==
    LET trimmed == TrimEndMatches(Trim(config_str), ",")
        pairs   == Split(trimmed, ",")
    IN  ParsePairs(pairs, new, 0)

\* Curve::as_config_string: eight times "{}c:{}%," and the last character
\* popped
RECURSIVE PushPairs(_, _, _)
PushPairs(c, i, acc) ==
    IF i >= 8 THEN acc
    ELSE PushPairs(c, i + 1,
            acc \o FmtDecimal(c[i + 1]) \o <<"c", ":">>
                \o FmtDecimal(c[i + 8 + 1]) \o <<"%", ",">>)

\* A variant of as_config_string without the final out.pop()
as_config_string_no_pop(c) == PushPairs(c, 0, <<>>)

\* A variant of as_config_string that writes the speed before the temperature
RECURSIVE PushPairsSwapped(_, _, _)
PushPairsSwapped(c, i, acc) ==
    IF i >= 8 THEN acc
    ELSE PushPairsSwapped(c, i + 1,
            acc \o FmtDecimal(c[i + 8 + 1]) \o <<"c", ":">>
                \o FmtDecimal(c[i + 1]) \o <<"%", ",">>)

as_config_string_swapped(c) == Front(PushPairsSwapped(c, 0, <<>>))

as_config_string(c) == Front(PushPairs(c, 0, <<>>))

-----------------------------------------------------------------------------
(* Curve: the safety check                                                  *)

Fans == {"Cpu", "Gpu"}

\* u8 arithmetic
U8(x) == x % 256

\* A variant of min_speed with the two fans' floors exchanged at index 5
min_speed_swapped(fan, i) ==
    CASE i \in {0, 1, 2, 3} -> Ok(0)
      [] i = 4 -> IF fan = "Cpu" THEN Ok(31) ELSE Ok(34)
      [] i = 5 -> IF fan = "Cpu" THEN Ok(51) ELSE Ok(49)
      [] i \in {6, 7} -> IF fan = "Cpu" THEN Ok(56) ELSE Ok(61)
      [] OTHER -> Panicked

\* the `min_speed` match of check_safety; an index outside 0..7 reaches
\* unreachable!()
min_speed(fan, i) ==
    CASE i \in {0, 1, 2, 3} -> Ok(0)
      [] i = 4 -> IF fan = "Cpu" THEN Ok(31) ELSE Ok(34)
      [] i = 5 -> IF fan = "Cpu" THEN Ok(49) ELSE Ok(51)
      [] i \in {6, 7} -> IF fan = "Cpu" THEN Ok(56) ELSE Ok(61)
      [] OTHER -> Panicked

TempOutOfRange(i) == [error |-> "TempOutOfRange", index |-> i]

SpeedTooLow(i) == [error |-> "SpeedTooLow", index |-> i]

\* check_safety's loop from index i on, last_speed being the speed of the
\* point before
RECURSIVE CheckFrom(_, _, _, _)
CheckFrom(c, fan, i, last_speed) ==
    IF i >= 8 THEN Ok(<<>>)
    ELSE
        LET temp     == c[i + 1]
            speed    == c[i + 8 + 1]
            min_temp == U8(U8(i * 10) + 30)
            max_temp == U8(U8(i * 10) + 39)
            floor    == min_speed(fan, i)
        IN  IF ~IsOk(floor) THEN Panicked
            ELSE IF temp < min_temp \/ temp > max_temp THEN Err(TempOutOfRange(i))
            ELSE IF speed < floor.val \/ speed < last_speed THEN Err(SpeedTooLow(i))
            ELSE CheckFrom(c, fan, i + 1, speed)

\* A variant of check_safety that tests the speed before the temperature
RECURSIVE CheckFromSpeedFirst(_, _, _, _)
CheckFromSpeedFirst(c, fan, i, last_speed) ==
    IF i >= 8 THEN Ok(<<>>)
    ELSE
        LET temp     == c[i + 1]
            speed    == c[i + 8 + 1]
            min_temp == U8(U8(i * 10) + 30)
            max_temp == U8(U8(i * 10) + 39)
            floor    == min_speed(fan, i)
        IN  IF ~IsOk(floor) THEN Panicked
            ELSE IF speed < floor.val \/ speed < last_speed THEN Err(SpeedTooLow(i))
            ELSE IF temp < min_temp \/ temp > max_temp THEN Err(TempOutOfRange(i))
            ELSE CheckFromSpeedFirst(c, fan, i + 1, speed)

check_safety_speed_first(c, fan) == CheckFromSpeedFirst(c, fan, 0, 0)

\* Curve::check_safety
check_safety(c, fan) == CheckFrom(c, fan, 0, 0)

-----------------------------------------------------------------------------
(* The ACPI command                                                         *)

\* A u32 is kept as two 16-bit halves, value = hi * 2^16 + lo.
U32(hi, lo) == [hi |-> hi, lo |-> lo]

\* `b as u32`
FromU8(b) == U32(0, b)

\* x << 8 on a u32: bits shifted past bit 31 are dropped
Shl8(x) == U32((x.hi * 256 + x.lo \div 256) % 65536, (x.lo * 256) % 65536)

\* x << k for k a multiple of 8
RECURSIVE Shl(_, _)
Shl(x, k) == IF k = 0 THEN x ELSE Shl(Shl8(x), k - 8)

\* x + y on u32; `overflow` tells that the sum does not fit
AddU32(x, y) ==
    LET lo == x.lo + y.lo
        hi == x.hi + y.hi + lo \div 65536
    IN  [overflow |-> hi >= 65536, val |-> U32(hi % 65536, lo % 65536)]

\* the digits of format!("{:x}", x): lowercase, no padding
RECURSIVE LowerHex(_)
LowerHex(x) ==
    LET digit == HexChars[(x.lo % 16) + 1]
        rest  == U32(x.hi \div 16, x.lo \div 16 + (x.hi % 16) * 4096)
    IN  IF rest = U32(0, 0) THEN <<digit>>
        ELSE Append(LowerHex(rest), digit)

Zeros(n) == [i \in 1..n |-> "0"]

\* format!("{:#x}", x)
FmtHex(x) == <<"0", "x">> \o LowerHex(x)

\* A variant of FmtWord that leaves the word unpadded, as {:#x} does
FmtWord_unpadded(x) == <<"0", "x">> \o LowerHex(x)

\* format!("{:0>#010x}", x): the 0 flag pads with zeros after the 0x
\* prefix up to a width of 10 characters
FmtWord(x) ==
    LET digits == LowerHex(x)
        pad    == IF 10 - 2 - Len(digits) > 0 THEN 10 - 2 - Len(digits) ELSE 0
    IN  <<"0", "x">> \o Zeros(pad) \o digits

\* the `param` of one chunk of four bytes; the additions are checked
Param(b) ==
    LET p0 == FromU8(b[1])
        p1 == AddU32(p0, Shl(FromU8(b[2]), 8))
        p2 == AddU32(p1.val, Shl(FromU8(b[3]), 16))
        p3 == AddU32(p2.val, Shl(FromU8(b[4]), 24))
    IN  [overflow |-> p1.overflow \/ p2.overflow \/ p3.overflow, val |-> p3.val]

\* "\\_SB.PCI0.SBRG.EC0.SUFC "
CommandHead ==
    <<"\\", "_", "S", "B", ".", "P", "C", "I", "0", ".", "S", "B", "R", "G",
      ".", "E", "C", "0", ".", "S", "U", "F", "C", " ">>

\* make_command's loop over curve.chunks_exact(4), from chunk j on
RECURSIVE PushParams(_, _, _)
PushParams(c, j, command) ==
    IF j >= 4 THEN command
    ELSE PushParams(c, j + 1,
            command \o FmtWord(Param(SubSeq(c, 4 * j + 1, 4 * j + 4)).val) \o <<" ">>)

\* make_command; an addition that overflows panics in a debug build and
\* wraps in a release build, either way reported as "overflow"
make_command(c, fan) ==
    IF \E j \in 0..3 : Param(SubSeq(c, 4 * j + 1, 4 * j + 4)).overflow
    THEN [kind |-> "overflow", val |-> <<>>]
    ELSE Ok(PushParams(c, 0, CommandHead) \o FmtHex(fan))

\* Fan::address
address(fan) ==
    CASE fan = "Cpu" -> Ok(U32(0, 64))
      [] fan = "Gpu" -> Ok(U32(0, 68))

-----------------------------------------------------------------------------
(* Each specification leaves the variables of the other two at rest        *)

IdleCurve ==
    /\ curve = new
    /\ curve0 = new
    /\ ncalls = 0
    /\ hist = <<>>
    /\ res = [op |-> "none"]
    /\ panicked = FALSE

IdleCodec ==
    /\ input = <<>>
    /\ cpc = "idle"
    /\ dec = NoResult
    /\ out = <<>>
    /\ dec2 = NoResult

IdleCli ==
    /\ args = <<>>
    /\ env = <<>>
    /\ pc = "idle"
    /\ cli = <<>>

-----------------------------------------------------------------------------
(* Spec: one Curve object and the calls made on it                          *)

\* the most set_point calls a run of the model makes
MaxCalls == 2

\* the curve the command line tool builds before it reads its arguments
CliDefault ==
    << 30, 40, 50, 60,
       70, 80, 90, 100,
       0, 1, 4, 4,
       40, 60, 100, 100 >>

InitialCurves == { new, CliDefault }

\* set_point's arguments for a point whose temperature band is lo..hi and
\* whose speed floors are fc (Cpu) and fg (Gpu): inside the band on the
\* Gpu floor, on the Cpu floor and under it, outside the band on either
\* side, and the extreme bytes
Band(lo, hi, fc, fg) ==
    LET under == IF fc > 0 THEN fc - 1 ELSE 255
    IN  { <<lo, fg>>, <<hi, fc>>, <<hi, under>>,
          <<lo - 1, under>>, <<hi + 1, fg>>,
          <<0, 0>>, <<255, 255>> }

PointInputs(n) ==
    CASE n \in {0, 1, 2, 3} -> Band(30 + 10 * n, 39 + 10 * n, 0, 1)
      [] n = 4 -> Band(70, 79, 31, 34)
      [] n = 5 -> Band(80, 89, 49, 51)
      [] n = 6 -> Band(90, 99, 56, 61)
      [] n = 7 -> Band(100, 109, 56, 61)
      [] OTHER -> { <<0, 0>> }

\* the fan addresses make_command is given: a fan's, and the least and
\* the greatest u32
AddressInputs ==
    { U32(0, 64), U32(0, 0), U32(65535, 65535) }

NoCall == [made |-> FALSE, temp |-> 0, speed |-> 0]

Init ==
    /\ curve \in InitialCurves
    /\ curve0 = curve
    /\ ncalls = 0
    /\ hist = [i \in 0..7 |-> NoCall]
    /\ res = [op |-> "none"]
    /\ panicked = FALSE
    /\ IdleCodec
    /\ IdleCli

\* curve.set_point(n, temp, speed).  The caller of the model sets its
\* points first and reads the curve afterwards, as the crate's example and
\* main do: the read-only calls leave the buffer alone, so every buffer and
\* every result on it is reached this way.
SetPoint(n, temp, speed) ==
    /\ ~panicked
    /\ res.op = "none"
    /\ ncalls < MaxCalls
    /\ LET r == set_point(curve, n, temp, speed)
       IN  IF IsOk(r)
           THEN /\ curve' = r.val
                /\ hist' = [hist EXCEPT ![n] = [made |-> TRUE, temp |-> temp, speed |-> speed]]
                /\ panicked' = FALSE
           ELSE /\ panicked' = TRUE
                /\ UNCHANGED <<curve, hist>>
    /\ ncalls' = ncalls + 1
    /\ res' = [op |-> "none"]
    /\ UNCHANGED <<curve0, codecVars, cliVars>>

\* curve.check_safety(fan); `res` keeps the result of the read-only call
CheckSafety(fan) ==
    /\ ~panicked
    /\ res.op = "none"
    /\ res' = [op |-> "check_safety", fan |-> fan, val |-> check_safety(curve, fan)]
    /\ UNCHANGED <<curve, curve0, ncalls, hist, panicked, codecVars, cliVars>>

\* make_command(&curve, fan_addr)
MakeCommand(fan_addr) ==
    /\ ~panicked
    /\ res.op = "none"
    /\ res' = [op |-> "make_command", fan |-> fan_addr, val |-> make_command(curve, fan_addr)]
    /\ UNCHANGED <<curve, curve0, ncalls, hist, panicked, codecVars, cliVars>>

Next ==
    \/ \E n \in 0..8 : \E p \in PointInputs(n) : SetPoint(n, p[1], p[2])
    \/ \E fan \in Fans : CheckSafety(fan)
    \/ \E fan_addr \in AddressInputs : MakeCommand(fan_addr)

Spec == Init /\ [][Next]_vars

-----------------------------------------------------------------------------
(* Properties of the Curve object                                           *)

\* C2: set_point(n, temp, speed) with n in 0..=7 sets point n and leaves
\* the seven other points alone, so that each point holds the values of the
\* last call made for its index, or its initial values if none was made.
C2_LastCallWins ==
    \A i \in 0..7 :
        IF hist[i].made
        THEN curve[i + 1] = hist[i].temp /\ curve[i + 9] = hist[i].speed
        ELSE curve[i + 1] = curve0[i + 1] /\ curve[i + 9] = curve0[i + 9]

\* two calls were made, for different points, and a third point is untouched
C2_Witness ==
    /\ ncalls = 2
    /\ hist[3].made /\ hist[3].temp = 255
    /\ hist[7].made /\ hist[7].speed = 0
    /\ ~hist[0].made
    /\ curve[4] = 255 /\ curve[16] = 0

LowerHexDigits == {"0", "1", "2", "3", "4", "5", "6", "7",
                   "8", "9", "a", "b", "c", "d", "e", "f"}

IsLowerHex(ch) == ch \in LowerHexDigits

HexVal(ch) ==
    CASE ch = "0" -> 0 [] ch = "1" -> 1 [] ch = "2" -> 2 [] ch = "3" -> 3
      [] ch = "4" -> 4 [] ch = "5" -> 5 [] ch = "6" -> 6 [] ch = "7" -> 7
      [] ch = "8" -> 8 [] ch = "9" -> 9 [] ch = "a" -> 10 [] ch = "b" -> 11
      [] ch = "c" -> 12 [] ch = "d" -> 13 [] ch = "e" -> 14 [] ch = "f" -> 15

\* w is 0x and exactly 8 lowercase hex digits, which read two by two are
\* the bytes b3 b2 b1 b0: the value b0 + b1*2^8 + b2*2^16 + b3*2^24
IsWordOf(w, b0, b1, b2, b3) ==
    /\ Len(w) = 10
    /\ w[1] = "0" /\ w[2] = "x"
    /\ \A k \in 3..10 : IsLowerHex(w[k])
    /\ HexVal(w[3]) * 16 + HexVal(w[4]) = b3
    /\ HexVal(w[5]) * 16 + HexVal(w[6]) = b2
    /\ HexVal(w[7]) * 16 + HexVal(w[8]) = b1
    /\ HexVal(w[9]) * 16 + HexVal(w[10]) = b0

\* the u32 (as two halves) that a string of hex digits denotes
HexValue(d) ==
    LET acc[i \in 0..Len(d)] ==
            IF i = 0 THEN <<0, 0>>
            ELSE LET lo == acc[i - 1][2] * 16 + HexVal(d[i])
                 IN  <<acc[i - 1][1] * 16 + lo \div 65536, lo % 65536>>
    IN  acc[Len(d)]

\* a is 0x and the hex digits of the address, without padding
IsAddressOf(a, addr) ==
    /\ Len(a) >= 3 /\ Len(a) <= 10
    /\ a[1] = "0" /\ a[2] = "x"
    /\ \A k \in 3..Len(a) : IsLowerHex(a[k])
    /\ (Len(a) > 3 => a[3] # "0")
    /\ HexValue(SubSeq(a, 3, Len(a))) = <<addr.hi, addr.lo>>

MethodPath ==
    <<"\\", "_", "S", "B", ".", "P", "C", "I", "0", ".", "S", "B", "R", "G",
      ".", "E", "C", "0", ".", "S", "U", "F", "C">>

\* C3: make_command returns the method path, four words and the address,
\* joined by single spaces with no trailing space; word j is 0x and the 8
\* zero-padded lowercase hex digits of buffer[4j] + buffer[4j+1]*2^8 +
\* buffer[4j+2]*2^16 + buffer[4j+3]*2^24, which fits 32 bits; the address is
\* 0x and its unpadded hex digits.
C3_CommandLayout ==
    res.op = "make_command" =>
        /\ IsOk(res.val)
        /\ \A cmd \in {res.val.val} :
               /\ Len(cmd) >= 23 + 4 * 11 + 1 + 3
               /\ SubSeq(cmd, 1, 23) = MethodPath
               /\ \A j \in 0..3 :
                     /\ cmd[24 + 11 * j] = " "
                     /\ \A w \in {SubSeq(cmd, 25 + 11 * j, 34 + 11 * j)} :
                            IsWordOf(w, curve[4 * j + 1], curve[4 * j + 2],
                                        curve[4 * j + 3], curve[4 * j + 4])
               /\ cmd[68] = " "
               /\ \A a \in {SubSeq(cmd, 69, Len(cmd))} : IsAddressOf(a, res.fan)

\* a command was made of a buffer with a 0 byte and a 255 byte in the top
\* places of its words
C3_Witness ==
    /\ res.op = "make_command"
    /\ IsOk(res.val)
    /\ curve[4] = 255
    /\ curve[9] = 0
    /\ res.fan = U32(0, 64)
    /\ Len(res.val.val) = 72

\* the floor of the claim: 0 up to index 3; 31/34 at 4; 49/51 at 5; 56/61
\* at 6 and 7 (Cpu/Gpu)
Floor(fan, i) ==
    IF i <= 3 THEN 0
    ELSE IF i = 4 THEN (IF fan = "Cpu" THEN 31 ELSE 34)
    ELSE IF i = 5 THEN (IF fan = "Cpu" THEN 49 ELSE 51)
    ELSE (IF fan = "Cpu" THEN 56 ELSE 61)

TempViolation(c, i) == c[i + 1] < 30 + 10 * i \/ c[i + 1] > 39 + 10 * i

SpeedViolation(c, fan, i) ==
    \/ c[i + 9] < Floor(fan, i)
    \/ c[i + 9] < (IF i = 0 THEN 0 ELSE c[i + 8])

Violations(c, fan) == { i \in 0..7 : TempViolation(c, i) \/ SpeedViolation(c, fan, i) }

\* the single result the claim describes
Verdict(c, fan) ==
    IF \A i \in 0..7 : ~TempViolation(c, i) /\ ~SpeedViolation(c, fan, i)
    THEN Ok(<<>>)
    ELSE LET i == CHOOSE k \in 0..7 :
                      /\ TempViolation(c, k) \/ SpeedViolation(c, fan, k)
                      /\ \A m \in 0..(k - 1) :
                             ~TempViolation(c, m) /\ ~SpeedViolation(c, fan, m)
         IN  IF TempViolation(c, i) THEN Err([error |-> "TempOutOfRange", index |-> i])
             ELSE Err([error |-> "SpeedTooLow", index |-> i])

\* the buffers that agree with c on the points 0..i
AgreeingUpTo(c, i) ==
    { [k \in 1..16 |-> IF (k - 1) % 8 > i THEN b ELSE c[k]] : b \in {0, 90, 255} }
    \cup { [k \in 1..16 |-> IF (k - 1) % 8 = j THEN b ELSE c[k]] : j \in (i + 1)..7, b \in {0, 255} }

\* C4: check_safety returns the violation at the lowest index that has one,
\* TempOutOfRange before SpeedTooLow, and Ok(()) exactly when no index has
\* one; the points after the first violating index do not influence it.
C4_FirstViolation ==
    res.op = "check_safety" =>
        \A v \in {Verdict(curve, res.fan)} :
            /\ res.val = v
            /\ IsOk(res.val) <=> Violations(curve, res.fan) = {}
            /\ IsErr(res.val) =>
                  \A c \in AgreeingUpTo(curve, res.val.val.index) :
                      check_safety(c, res.fan) = v

\* a curve with a speed violation at index 4 and a temperature violation
\* at index 6 was checked
C4_Witness ==
    /\ res.op = "check_safety"
    /\ res.fan = "Cpu"
    /\ IsErr(res.val)
    /\ res.val.val = [error |-> "SpeedTooLow", index |-> 4]
    /\ TempViolation(curve, 6)
    /\ Violations(curve, "Cpu") = {4, 6}

\* r_gpu is at least as strict a result as r_cpu
AtLeastAsStrict(r_gpu, r_cpu) ==
    /\ r_gpu.kind \in {"ok", "err"} /\ r_cpu.kind \in {"ok", "err"}
    /\ IsOk(r_gpu) => IsOk(r_cpu)
    /\ (IsErr(r_gpu) /\ IsErr(r_cpu)) => r_gpu.val.index <= r_cpu.val.index

\* C10: if check_safety(Gpu) is Ok(()) then check_safety(Cpu) is Ok(());
\* when both are errors, the Gpu error's index is at most the Cpu error's.
C10_GpuAtLeastAsStrict ==
    res.op = "check_safety" =>
        IF res.fan = "Gpu"
        THEN AtLeastAsStrict(res.val, check_safety(curve, "Cpu"))
        ELSE AtLeastAsStrict(check_safety(curve, "Gpu"), res.val)

\* a curve was checked that the Cpu accepts and the Gpu rejects, and one
\* where both reject
C10_Witness ==
    /\ res.op = "check_safety"
    /\ res.fan = "Gpu"
    /\ IsErr(res.val)
    /\ res.val.val.index = 5
    /\ IsErr(check_safety(curve, "Cpu"))
    /\ check_safety(curve, "Cpu").val.index = 6

-----------------------------------------------------------------------------
(* SpecCodec: the config strings handed to the decoder                      *)

\* the most fields a config string of the model has: one more than a curve
\* holds, so that "Too many pairs." happens
MaxTokens == 9

Numerals ==
    { <<"0">>, <<"7">>, <<"3", "0">>, <<"9", "9">>,
      <<"1", "0", "0">>, <<"1", "0", "9">>, <<"2", "5", "5">> }

\* tokens in the documented form <t>c:<s>%
GoodTokens == { t \o <<"c", ":">> \o sp \o <<"%">> : t \in Numerals, sp \in Numerals }

\* tokens off the documented form: blanks, signs, leading zeros, more fields
OddTokens ==
    { <<" ", "4", "0", "c", ":", "5", "%", " ">>,
      <<"\t", "4", "0", "c", ":", "5", "%">>,
      <<"+", "5", "c", ":", "1", "%">>,
      <<"5", "c", ":", "+", "1", "%">>,
      <<"0", "0", "7", "c", ":", "0", "5", "%">>,
      <<"0", "0", "0", "c", ":", "0", "2", "5", "5", "%">>,
      <<"3", "0", "c", ":", "0", "%", ":", "9">>,
      <<"3", "0", "c", ":", "0", "%", ":">>,
      <<"3", "0", "c", ":", "0", "%", ":", "4", "0", "c", ":", "5", "%">> }

BadTokens ==
    { <<>>,
      <<" ">>,
      <<":">>,
      <<"3", "0", "c">>,
      <<"3", "0", "c", "5", "%">>,
      <<"3", "0", ":", "5", "%">>,
      <<"3", "0", "C", ":", "5", "%">>,
      <<"3", "0", "c", " ", ":", "5", "%">>,
      <<"3", "0", "c", ":", "5">>,
      <<"3", "0", "c", ":", "5", "%", " ", "x">>,
      <<"3", "0", "%", ":", "5", "c">>,
      <<":", "3", "0", "c", ":", "5", "%">>,
      <<"c", ":", "5", "%">>,
      <<"3", "0", "c", ":", "%">>,
      <<"+", "c", ":", "5", "%">>,
      <<"3", "0", "c", ":", "-", "%">>,
      <<"x", "c", ":", "1", "%">>,
      <<"3", "x", "c", ":", "1", "%">>,
      <<"-", "1", "c", ":", "1", "%">>,
      <<"3", "0", "c", ":", "-", "0", "%">>,
      <<"3", " ", "0", "c", ":", "1", "%">>,
      <<"3", "0", "c", ":", "1", " ", "%">>,
      <<"+", "+", "5", "c", ":", "1", "%">>,
      <<"2", "5", "6", "c", ":", "1", "%">>,
      <<"3", "0", "c", ":", "3", "0", "0", "%">>,
      <<"3", "0", "c", ":", "0", "2", "5", "6", "%">>,
      <<"1", "0", "0", "0", "c", ":", "1", "%">> }

AllTokens == GoodTokens \cup OddTokens \cup BadTokens

\* the library's own test string, 30c:1%,49c:2%,...,109c:58%, continued
\* with 110c:60% past the eighth field
BaseTok(i) ==
    CASE i = 1 -> <<"3", "0", "c", ":", "1", "%">>
      [] i = 2 -> <<"4", "9", "c", ":", "2", "%">>
      [] i = 3 -> <<"5", "9", "c", ":", "3", "%">>
      [] i = 4 -> <<"6", "9", "c", ":", "4", "%">>
      [] i = 5 -> <<"7", "9", "c", ":", "3", "1", "%">>
      [] i = 6 -> <<"8", "9", "c", ":", "4", "9", "%">>
      [] i = 7 -> <<"9", "9", "c", ":", "5", "6", "%">>
      [] i = 8 -> <<"1", "0", "9", "c", ":", "5", "8", "%">>
      [] OTHER -> <<"1", "1", "0", "c", ":", "6", "0", "%">>

RECURSIVE Join(_)
Join(toks) ==
    IF toks = <<>> THEN <<>>
    ELSE IF Len(toks) = 1 THEN toks[1]
    ELSE toks[1] \o <<",">> \o Join(Tail(toks))

Prefixes == { <<>>, <<" ">> }

Suffixes == { <<>>, <<",">>, <<",", ",">>, <<",", " ">>, <<" ", ",">>,
              <<",", " ", ",">>, <<"\n">> }

\* the fields of an input: the base fields, at most one of them replaced
TokenLists ==
    UNION { { [i \in 1..n |-> BaseTok(i)] }
            \cup { [i \in 1..n |-> IF i = k THEN tok ELSE BaseTok(i)] :
                       k \in 1..n, tok \in AllTokens }
            : n \in 0..MaxTokens }

Inputs == { pre \o Join(toks) \o suf :
                pre \in Prefixes, toks \in TokenLists, suf \in Suffixes }

InitCodec ==
    /\ input \in Inputs
    /\ cpc = "input"
    /\ dec = NoResult
    /\ out = <<>>
    /\ dec2 = NoResult
    /\ IdleCurve
    /\ IdleCli

\* Curve::from_config_str(input)
FromConfigStr ==
    /\ cpc = "input"
    /\ dec' = from_config_str(input)
    /\ cpc' = "decoded"
    /\ UNCHANGED <<input, out, dec2, curveVars, cliVars>>

\* as_config_string of the curve the decoder returned
AsConfigString ==
    /\ cpc = "decoded"
    /\ IsOk(dec)
    /\ out' = as_config_string(dec.val)
    /\ cpc' = "encoded"
    /\ UNCHANGED <<input, dec, dec2, curveVars, cliVars>>

\* Curve::from_config_str of the string the encoder produced
FromEncoded ==
    /\ cpc = "encoded"
    /\ dec2' = from_config_str(out)
    /\ cpc' = "redecoded"
    /\ UNCHANGED <<input, dec, out, curveVars, cliVars>>

NextCodec == FromConfigStr \/ AsConfigString \/ FromEncoded

SpecCodec == InitCodec /\ [][NextCodec]_vars

-----------------------------------------------------------------------------
(* Properties of the codec.  The text of a config string is read here by    *)
(* position, independently of the decoder's own helpers.                    *)

Blank == {" ", "\t", "\n"}

MinOf(S) == CHOOSE x \in S : \A y \in S : x <= y

MaxOf(S) == CHOOSE x \in S : \A y \in S : x >= y

\* s without its surrounding blanks
Stripped(s) ==
    LET keep == { i \in 1..Len(s) : s[i] \notin Blank }
    IN  IF keep = {} THEN <<>> ELSE SubSeq(s, MinOf(keep), MaxOf(keep))

\* s without its trailing commas
WithoutTrailingCommas(s) ==
    LET keep == { i \in 1..Len(s) : s[i] # "," }
    IN  IF keep = {} THEN <<>> ELSE SubSeq(s, 1, MaxOf(keep))

\* the fields of s between the occurrences of sep
FieldsOf(s, sep) ==
    LET cuts  == {0} \cup { i \in 1..Len(s) : s[i] = sep } \cup {Len(s) + 1}
        nth(k) == CHOOSE p \in cuts : Cardinality({ q \in cuts : q < p }) = k - 1
    IN  [k \in 1..(Cardinality(cuts) - 1) |-> SubSeq(s, nth(k) + 1, nth(k + 1) - 1)]

\* the tokens of a config string: surrounding blanks and trailing commas
\* dropped, the rest cut at the commas, each token without its surrounding
\* blanks
TokensOf(s) ==
    LET f == FieldsOf(WithoutTrailingCommas(Stripped(s)), ",")
    IN  [k \in 1..Len(f) |-> Stripped(f[k])]

ColonCount(tok) == Cardinality({ i \in 1..Len(tok) : tok[i] = ":" })

AllDigits(d) == \A i \in 1..Len(d) : \E v \in 0..9 : DigitChars[v + 1] = d[i]

\* the value of a string of decimal digits
NumeralValue(d) ==
    LET val(i) == CHOOSE v \in 0..9 : DigitChars[v + 1] = d[i]
        sum[i \in 0..Len(d)] == IF i = 0 THEN 0 ELSE sum[i - 1] * 10 + val(i)
    IN  sum[Len(d)]

\* a numeric part the format does not admit: empty, not a number (digits,
\* possibly after one '+'), or a number over 255
BadNumber(d) ==
    LET digits == IF d # <<>> /\ d[1] = "+" THEN SubSeq(d, 2, Len(d)) ELSE d
    IN  \/ digits = <<>>
        \/ ~AllDigits(digits)
        \/ NumeralValue(digits) > 255

\* a token that lacks the ':' separator, or whose temperature part does
\* not end in 'c', or whose speed part does not end in '%', or one of
\* whose numeric parts is bad
BadToken(tok) ==
    \/ ColonCount(tok) = 0
    \/ LET part == FieldsOf(tok, ":")
           temp == part[1]
           speed == part[2]
       IN  \/ temp = <<>> \/ temp[Len(temp)] # "c"
           \/ speed = <<>> \/ speed[Len(speed)] # "%"
           \/ BadNumber(SubSeq(temp, 1, Len(temp) - 1))
           \/ BadNumber(SubSeq(speed, 1, Len(speed) - 1))

Malformed(s) ==
    LET toks == TokensOf(s)
    IN  \/ Len(toks) > 8
        \/ \E k \in 1..Len(toks) : BadToken(toks[k])

\* a decimal number in 0..255 as the encoder writes it: digits only, no
\* sign, no leading zero
PlainByte(d) ==
    /\ d # <<>>
    /\ Len(d) <= 3
    /\ AllDigits(d)
    /\ (Len(d) > 1 => d[1] # "0")
    /\ NumeralValue(d) <= 255

\* tok is <temp>c:<speed>% with plain numbers
PlainToken(tok) ==
    LET part == FieldsOf(tok, ":")
    IN  /\ Len(part) = 2
        /\ part[1] # <<>> /\ part[1][Len(part[1])] = "c"
        /\ part[2] # <<>> /\ part[2][Len(part[2])] = "%"
        /\ PlainByte(SubSeq(part[1], 1, Len(part[1]) - 1))
        /\ PlainByte(SubSeq(part[2], 1, Len(part[2]) - 1))

TokenTemp(tok) ==
    LET t == FieldsOf(tok, ":")[1] IN NumeralValue(SubSeq(t, 1, Len(t) - 1))

TokenSpeed(tok) ==
    LET sp == FieldsOf(tok, ":")[2] IN NumeralValue(SubSeq(sp, 1, Len(sp) - 1))

\* a canonical 8-token config string: eight plain tokens joined by single
\* commas, no whitespace, no trailing comma
Canonical(s) ==
    LET toks == FieldsOf(s, ",")
    IN  /\ Len(toks) = 8
        /\ \A i \in 1..8 : PlainToken(toks[i])

\* s is canonical and its token i holds temperature c[i] and speed c[i+8]
\* of the buffer c (0-based indices)
EncodesCurve(s, c) ==
    /\ Canonical(s)
    /\ \A i \in 1..8 :
          /\ TokenTemp(FieldsOf(s, ",")[i]) = c[i]
          /\ TokenSpeed(FieldsOf(s, ",")[i]) = c[i + 8]

\* C1: a curve decoded from a well-formed 8-token config string, encoded
\* and decoded again, decodes successfully to the same 16 bytes, position
\* by position.
C1_RoundTrip ==
    (cpc = "redecoded" /\ IsOk(dec) /\ Len(TokensOf(input)) = 8)
        => /\ IsOk(dec2)
           /\ \A i \in 1..16 : dec2.val[i] = dec.val[i]

\* a well-formed 8-token string that is not in canonical form has made the
\* round trip
C1_Witness ==
    /\ cpc = "redecoded"
    /\ IsOk(dec)
    /\ Len(TokensOf(input)) = 8
    /\ input # out
    /\ IsOk(dec2)
    /\ dec2.val = dec.val
    /\ dec.val[8] = 255

\* C5: from_config_str returns Ok only for a config string of exactly 8
\* pairs, and Err for fewer (7 included) or more.
C5_ExactlyEightPairs ==
    (cpc # "input" /\ Len(TokensOf(input)) # 8) => IsErr(dec)

\* C6: a config string with a token lacking ':', a temperature part not
\* ending in 'c', a speed part not ending in '%', a numeric part that is
\* empty, not a number or over 255, or with more than 8 tokens, is answered
\* with Err; no config string makes the decoder panic.
C6_MalformedIsErr ==
    cpc # "input" =>
        /\ dec.kind # "panic"
        /\ Malformed(input) => IsErr(dec)

\* an 8-token string whose only fault is the number 256 was decoded, to Err
C6_Witness ==
    /\ cpc = "decoded"
    /\ IsErr(dec)
    /\ Malformed(input)
    /\ Len(TokensOf(input)) = 8
    /\ \E k \in 1..8 : TokensOf(input)[k] = <<"2", "5", "6", "c", ":", "1", "%">>

\* C7: a config string in which some token contains two or more ':' is
\* answered with Err.
C7_ExtraColonIsErr ==
    (cpc # "input" /\ \E k \in 1..Len(TokensOf(input)) : ColonCount(TokensOf(input)[k]) >= 2)
        => IsErr(dec)

\* C9: as_config_string writes exactly 8 tokens <temp>c:<speed>% in index
\* order, joined by single commas, no trailing comma, plain decimal numbers;
\* and a canonical 8-token config string decodes and encodes to itself.
C9_CanonicalEncoding ==
    cpc \in {"encoded", "redecoded"} =>
        /\ EncodesCurve(out, dec.val)
        /\ Canonical(input) => out = input

\* a canonical string with one-, two- and three-digit numbers has been
\* decoded and encoded
C9_Witness ==
    /\ cpc = "encoded"
    /\ Canonical(input)
    /\ out = input
    /\ \E k \in 1..8 : FieldsOf(input, ",")[k] = <<"2", "5", "5", "c", ":", "0", "%">>

-----------------------------------------------------------------------------
(* The transport, the boards and the command line tool                      *)

Some(v) == [some |-> TRUE, val |-> v]

NoneOpt == [some |-> FALSE, val |-> <<>>]

StartsWith(s, prefix) ==
    Len(s) >= Len(prefix) /\ SubSeq(s, 1, Len(prefix)) = prefix

\* Board::from_name
from_name(name) ==
    IF name = <<"G", "A", "4", "0", "1", "I", "V">> THEN Some("Ga401") ELSE NoneOpt

\* Board::from_board_name; board_file is what reading
\* /sys/class/dmi/id/board_name gives, NoneOpt when the read fails
from_board_name(board_file) ==
    IF ~board_file.some THEN NoneOpt ELSE from_name(Trim(board_file.val))

\* acpi_call(command).  `reply` is what /proc/acpi/call does: it cannot be
\* opened ("open"), it takes the command and then fails ("io"), or it takes
\* the command and answers with the text reply.out ("answer").  `sent` is
\* what was written to the file.
acpi_call(command, reply) ==
    IF reply.io = "open" THEN [kind |-> "err", val |-> "Io", sent |-> <<>>]
    ELSE IF reply.io = "io" THEN [kind |-> "err", val |-> "Io", sent |-> <<command>>]
    ELSE IF StartsWith(reply.out, <<"E", "r", "r", "o", "r", ":">>)
         THEN [kind |-> "err", val |-> "Acpi", sent |-> <<command>>]
    ELSE [kind |-> "ok", val |-> "", sent |-> <<command>>]

\* Curve::apply
apply(c, board, fan, reply) ==
    IF board # "Ga401" THEN [kind |-> "panic", val |-> "", sent |-> <<>>]
    ELSE LET fan_addr == address(fan)
         IN  IF ~IsOk(fan_addr) THEN [kind |-> "err", val |-> "InvalidFan", sent |-> <<>>]
             ELSE LET command == make_command(c, fan_addr.val)
                  IN  IF ~IsOk(command) THEN [kind |-> "panic", val |-> "", sent |-> <<>>]
                      ELSE acpi_call(command.val, reply)

WarningText == "Warning: This fan curve wouldn't be allowed in armoury crate and may be unsafe."

\* A variant of FanBlock that applies the curve only when the safety check
\* did not fail
FanBlock_blocking(st, fan, reply) ==
    LET checked == ~st.warning_given
        verdict == IF checked THEN check_safety(st.curve, fan) ELSE NoResult
        warn    == checked /\ IsErr(verdict)
    IN  IF warn
        THEN [st EXCEPT !.warning_given = TRUE,
                        !.stderr = Append(@, WarningText)]
        ELSE LET r == apply(st.curve, st.board, fan, reply)
             IN  [st EXCEPT !.applies = Append(@, [fan |-> fan, verdict |-> verdict.kind,
                                                   result |-> r.kind, sent |-> r.sent]),
                            !.panicked = ~IsOk(r)]

\* One of main's two blocks, `if cpu { ... }` and `if gpu { ... }`: the
\* check and its warning unless a warning was given, then apply(..).unwrap()
FanBlock(st, fan, reply) ==
    LET checked == ~st.warning_given
        verdict == IF checked THEN check_safety(st.curve, fan) ELSE NoResult
        warn    == checked /\ IsErr(verdict)
        r       == apply(st.curve, st.board, fan, reply)
    IN  IF verdict.kind = "panic" THEN [st EXCEPT !.panicked = TRUE]
        ELSE [st EXCEPT !.warning_given = @ \/ warn,
                        !.stderr = IF warn THEN Append(@, WarningText) ELSE @,
                        !.applies = Append(@, [fan |-> fan, verdict |-> verdict.kind,
                                               result |-> r.kind, sent |-> r.sent]),
                        !.panicked = ~IsOk(r)]

\* main's eight set_point calls on Curve::new()
RECURSIVE SetPoints(_, _)
SetPoints(c, points) ==
    IF points = <<>> THEN Ok(c)
    ELSE LET r == set_point(c, Head(points)[1], Head(points)[2], Head(points)[3])
         IN  IF ~IsOk(r) THEN r ELSE SetPoints(r.val, Tail(points))

MainPoints ==
    << <<0, 30, 0>>, <<1, 40, 1>>, <<2, 50, 4>>, <<3, 60, 4>>,
       <<4, 70, 40>>, <<5, 80, 60>>, <<6, 90, 100>>, <<7, 100, 100>> >>

\* main up to its fan blocks: the curve, the board, the flags.  The result
\* is main's locals, `panicked` telling that an unwrap or expect failed.
MainSetup(a, board_file) ==
    LET built   == SetPoints(new, MainPoints)
        parsed  == IF a.curve.some THEN from_config_str(a.curve.val) ELSE built
        named   == IF a.board.some THEN from_name(a.board.val) ELSE NoneOpt
        board   == IF a.board.some THEN named ELSE from_board_name(board_file)
        neither == ~a.cpu /\ ~a.gpu
    IN  [ curve         |-> IF IsOk(parsed) THEN parsed.val ELSE <<>>,
          board         |-> IF board.some THEN board.val ELSE "",
          cpu           |-> a.cpu \/ neither,
          gpu           |-> a.gpu \/ neither,
          warning_given |-> a.no_warn,
          stderr        |-> <<>>,
          applies       |-> <<>>,
          panicked      |-> \/ ~IsOk(built)
                            \/ ~IsOk(parsed)
                            \/ (a.board.some /\ ~named.some)
                            \/ ~board.some ]

-----------------------------------------------------------------------------
(* SpecCli: one run of main                                                 *)

TestString == Join([i \in 1..8 |-> BaseTok(i)])

\* the curve arguments of the runs: none; the library's test string (safe
\* for the Cpu, too slow at point 4 for the Gpu); a string neither fan's
\* envelope admits; one both admit; a string of 7 pairs; one that does not
\* decode
CurveArgs ==
    { NoneOpt,
      Some(TestString),
      Some(Join([i \in 1..8 |-> IF i = 1 THEN <<"4", "1", "c", ":", "1", "%">> ELSE BaseTok(i)])),
      Some(Join([i \in 1..8 |-> IF i = 5 THEN <<"7", "9", "c", ":", "3", "4", "%">>
                                ELSE IF i = 7 THEN <<"9", "9", "c", ":", "6", "1", "%">>
                                ELSE IF i = 8 THEN <<"1", "0", "9", "c", ":", "6", "1", "%">>
                                ELSE BaseTok(i)])),
      Some(Join([i \in 1..7 |-> BaseTok(i)])),
      Some(Join([i \in 1..8 |-> IF i = 3 THEN <<"5", "9", "c">> ELSE BaseTok(i)])) }

BoardArgs ==
    { NoneOpt,
      Some(<<"G", "A", "4", "0", "1", "I", "V">>),
      Some(<<"G", "A", "5", "0", "2">>) }

BoardFiles ==
    { NoneOpt,
      Some(<<"G", "A", "4", "0", "1", "I", "V", "\n">>),
      Some(<<"G", "A", "5", "0", "2", "\n">>) }

Replies ==
    { [io |-> "open", out |-> <<>>],
      [io |-> "io", out |-> <<>>],
      [io |-> "answer", out |-> <<>>],
      [io |-> "answer", out |-> <<"0", "x", "0">>],
      [io |-> "answer", out |-> <<"E", "r", "r", "o", "r", ":", " ", "A", "E">>] }

NoLocals ==
    [ curve |-> <<>>, board |-> "", cpu |-> FALSE, gpu |-> FALSE,
      warning_given |-> FALSE, stderr |-> <<>>, applies |-> <<>>,
      panicked |-> FALSE ]

InitCli ==
    /\ args \in [ board : BoardArgs, cpu : BOOLEAN, gpu : BOOLEAN,
                  no_warn : BOOLEAN, curve : CurveArgs ]
    /\ env \in [ board_file : BoardFiles ]
    /\ pc = "start"
    /\ cli = NoLocals
    /\ IdleCurve
    /\ IdleCodec

\* main, lines 24 to 59
Setup ==
    /\ pc = "start"
    /\ cli' = MainSetup(args, env.board_file)
    /\ pc' = IF cli'.panicked THEN "setup_panicked" ELSE "cpu"
    /\ UNCHANGED <<args, env, curveVars, codecVars>>

\* main, lines 61 to 67
CpuBlock(reply) ==
    /\ pc = "cpu"
    /\ cli' = IF cli.cpu THEN FanBlock(cli, "Cpu", reply) ELSE cli
    /\ pc' = IF cli'.panicked THEN "apply_panicked" ELSE "gpu"
    /\ UNCHANGED <<args, env, curveVars, codecVars>>

\* main, lines 68 to 75
GpuBlock(reply) ==
    /\ pc = "gpu"
    /\ cli' = IF cli.gpu THEN FanBlock(cli, "Gpu", reply) ELSE cli
    /\ pc' = IF cli'.panicked THEN "apply_panicked" ELSE "done"
    /\ UNCHANGED <<args, env, curveVars, codecVars>>

NextCli ==
    \/ Setup
    \/ \E reply \in Replies : CpuBlock(reply)
    \/ \E reply \in Replies : GpuBlock(reply)

SpecCli == InitCli /\ [][NextCli]_vars

-----------------------------------------------------------------------------
(* Properties of the command line tool                                      *)

SelectedFans ==
    (IF cli.cpu THEN <<"Cpu">> ELSE <<>>) \o (IF cli.gpu THEN <<"Gpu">> ELSE <<>>)

AppliedFans == [i \in 1..Len(cli.applies) |-> cli.applies[i].fan]

\* C8: once main reaches its fan blocks, apply is invoked for each selected
\* fan, Cpu then Gpu (both when neither flag is given), whatever
\* check_safety returned, up to the first apply that fails; a violation
\* only prints the warning, once.
C8_SafetyNeverBlocks ==
    /\ pc = "cpu" => cli.applies = <<>> /\ SelectedFans # <<>>
    /\ pc = "gpu" => AppliedFans = (IF cli.cpu THEN <<"Cpu">> ELSE <<>>)
    /\ pc = "done" => AppliedFans = SelectedFans
    /\ pc = "apply_panicked" =>
          /\ cli.applies # <<>>
          /\ AppliedFans = SubSeq(SelectedFans, 1, Len(cli.applies))
          /\ cli.applies[Len(cli.applies)].result # "ok"
    /\ pc \in {"cpu", "gpu", "done", "apply_panicked"} =>
          /\ \A i \in 1..(Len(cli.applies) - 1) : cli.applies[i].result = "ok"
          /\ \A i \in 1..Len(cli.applies) :
                cli.applies[i].verdict \in {"ok", "err", "none"}
          /\ Len(cli.stderr) <= 1
          /\ (cli.stderr # <<>>) <=> (\E i \in 1..Len(cli.applies) : cli.applies[i].verdict = "err")

\* a run ended with both fans applied, the Gpu one after check_safety(Gpu)
\* had failed and the warning was printed
C8_Witness ==
    /\ pc = "done"
    /\ Len(cli.applies) = 2
    /\ cli.applies[1].verdict = "ok"
    /\ cli.applies[2].fan = "Gpu"
    /\ cli.applies[2].verdict = "err"
    /\ cli.applies[2].result = "ok"
    /\ cli.applies[2].sent # <<>>
    /\ cli.stderr = <<WarningText>>

=============================================================================
